---- MODULE Spec2Model ----
(***************************************************************************)
(* github-review-405: recover the comments of a stuck pending pull-request *)
(* review.  The model follows main() of src/main.js step by step: one      *)
(* action per awaited call (and per outcome of it), with the synchronous   *)
(* code that follows the await folded into the same action.  Several runs  *)
(* of the tool follow each other on the same file system.                  *)
(***************************************************************************)
EXTENDS Integers, Sequences, FiniteSets, TLC

\* ------------------------------------------------------------------ bounds
MaxRuns == 2          \* runs of the tool in one behaviour
MaxPageLen == 2       \* reviews on one page
MaxComments == 2      \* comments of one pending review

\* ------------------------------------------------------- program constants
COUNTDOWN == 10       \* timeoutNotify(..., 10)

\* --------------------------------------------------------------- JS values
Undefined == 0 - 1    \* `let reviewId;`  (review ids are positive)

Digit == <<"0", "1", "2", "3", "4", "5", "6", "7", "8", "9">>

\* `${n}` / JSON.stringify of a non-negative integer: its decimal digits
RECURSIVE DecStr(_)
DecStr(n) ==
    IF n < 10 THEN <<Digit[n + 1]>>
    ELSE DecStr(n \div 10) \o <<Digit[(n % 10) + 1]>>

DigitVal(d) == (CHOOSE i \in 1..10 : Digit[i] = d) - 1

\* JSON.parse of a number literal
RECURSIVE ParseInt(_)
ParseInt(ds) ==
    IF Len(ds) = 0 THEN 0
    ELSE 10 * ParseInt(SubSeq(ds, 1, Len(ds) - 1)) + DigitVal(ds[Len(ds)])

\* ---------------------------------------------------------------- comments
\* A comment object is a function from its property names to values; the
\* property new_id is absent until the comment has been re-posted.
KeyOrder == <<"id", "commit_id", "path", "position", "body", "new_id">>

BaseComment(k) ==
    [id |-> 12 - k, commit_id |-> k, path |-> k, position |-> 2 * k, body |-> 10 + k]

RECURSIVE SeqsOver(_, _)
SeqsOver(S, n) ==
    IF n = 0 THEN {<<>>}
    ELSE LET shorter == SeqsOver(S, n - 1)
         IN  shorter \cup {Append(s, x) : s \in {t \in shorter : Len(t) = n - 1}, x \in S}

\* what getCommentsForReview can return: the first n comments of the review
CommentLists ==
    {[i \in 1..n |-> BaseComment(i)] : n \in 0..MaxComments}

\* pResp.data.id: the id the server gives the standalone copy of comment c
NewIds(c) == {100 + c["id"]}

\* `!comment.new_id` is false
HasNewId(c) == "new_id" \in DOMAIN c /\ c["new_id"] # 0

\* variant: the new id is stored in `id`
SetNewIdOverId(c, v) ==
    [k \in DOMAIN c \cup {"new_id"} |-> IF k \in {"id", "new_id"} THEN v ELSE c[k]]

\* variant: the assignment is lost, the comment stays as it was
SetNewIdLost(c, v) == c

\* `comment.new_id = v`
SetNewId(c, v) ==
    [k \in DOMAIN c \cup {"new_id"} |-> IF k = "new_id" THEN v ELSE c[k]]

\* variant: the serialiser leaves new_id out
StringifyObjNoNewId(c) ==
    LET present == SelectSeq(KeyOrder, LAMBDA k : k \in DOMAIN c /\ k # "new_id")
    IN  [i \in 1..Len(present) |-> <<present[i], DecStr(c[present[i]])>>]

\* JSON.stringify(comments): per object the properties in order, numbers as
\* decimal literals
StringifyObj(c) ==
    LET present == SelectSeq(KeyOrder, LAMBDA k : k \in DOMAIN c)
    IN  [i \in 1..Len(present) |-> <<present[i], DecStr(c[present[i]])>>]

Stringify(cs) == [i \in 1..Len(cs) |-> StringifyObj(cs[i])]

\* JSON.parse(r)
ParseObj(o) ==
    LET keys == {o[i][1] : i \in 1..Len(o)}
    IN  [k \in keys |-> ParseInt((CHOOSE p \in {o[i] : i \in 1..Len(o)} : p[1] = k)[2])]

\* variant: the array comes back in reverse order
ParseReversed(text) == [i \in 1..Len(text) |-> ParseObj(text[Len(text) + 1 - i])]

Parse(text) == [i \in 1..Len(text) |-> ParseObj(text[i])]

\* ------------------------------------------------------------------- paths
Orgs == {"org"}
Repos == {"repo"}
PRs == {7}

\* `${org}_${repo}_${pr}_${reviewId}.json`
DerivedPath(org, repo, pr, rid) ==
    <<org, "_", repo, "_">> \o DecStr(pr) \o <<"_">> \o DecStr(rid) \o <<".json">>

\* `${org}_${repo}_${pr}_sync.json`
SyncPath(org, repo, pr) ==
    <<org, "_", repo, "_">> \o DecStr(pr) \o <<"_", "sync", ".json">>

UserPath == <<"mine", ".json">>

\* ----------------------------------------------------------------- reviews
Callers == {1}
ReviewPool ==
    {[id |-> 1, user |-> 1, state |-> "PENDING"],
     [id |-> 2, user |-> 1, state |-> "PENDING"],
     [id |-> 3, user |-> 2, state |-> "PENDING"],
     [id |-> 4, user |-> 1, state |-> "APPROVED"]}

\* a page of the listing: up to MaxPageLen reviews, no review twice
Pages ==
    {p \in SeqsOver(ReviewPool, MaxPageLen) :
        \A i, j \in 1..Len(p) : i # j => p[i] # p[j]}

ReviewIds == {r.id : r \in ReviewPool}

Paths ==
    {DerivedPath(o, r, p, i) : o \in Orgs, r \in Repos, p \in PRs, i \in ReviewIds}
    \cup {SyncPath(o, r, p) : o \in Orgs, r \in Repos, p \in PRs}
    \cup {UserPath}

\* A file: whether it exists, whether JSON.parse accepts it, and its text.
\* `final` and `failed` are history: the file was written by the re-save
\* that ends a run, and the positions whose post had failed in that run.
NoFile == [exists |-> FALSE, valid |-> FALSE, text |-> <<>>, final |-> FALSE, failed |-> {}]
\* a file a failed write left truncated: JSON.parse rejects it
BrokenFile == [exists |-> TRUE, valid |-> FALSE, text |-> <<>>, final |-> FALSE, failed |-> {}]
FileOf(cs) ==
    [exists |-> TRUE, valid |-> TRUE, text |-> Stringify(cs), final |-> FALSE, failed |-> {}]

\* --------------------------------------------------------------- options
\* opt.options: an option is `given` or not; `--load=` gives the empty string
NotGiven == [given |-> FALSE, value |-> <<>>]
Given(v) == [given |-> TRUE, value |-> v]
Truthy(o) == o.given /\ o.value # <<>>

SaveChoices == {NotGiven, Given(UserPath)}
LoadChoices ==
    {NotGiven, Given(<<>>), Given(UserPath)}
    \cup {Given(DerivedPath(o, r, p, 1)) : o \in Orgs, r \in Repos, p \in PRs}

NoOpt == [org |-> "org", repo |-> "repo", pr |-> 7, save |-> NotGiven, load |-> NotGiven]

NoOrigin == [loaded |-> FALSE, final |-> FALSE, failed |-> {}]

VARIABLES
    files,        \* the file system: path -> file
    runs,         \* number of runs started
    pc,           \* position of the current run in main()
    opt,          \* opt.options of the current run, with org/repo/pr split
    userId,       \* main: userId
    reviewId,     \* main: reviewId
    saveFile,     \* main: saveFile
    comments,     \* main: comments
    timeout,      \* timeoutNotify: timeout
    idx,          \* position of the `for (const comment of comments)` loop
    exitCode,     \* process exit status of the current run
    err,          \* which step raised the error that ended the run
    pendingMine,  \* history: PENDING reviews by the caller on pages delivered
    deleteCalls,  \* history: deletePendingReview calls issued in this run
    createCalls,  \* history: createComment calls issued in this run
    writes,       \* history: writeFile calls issued in this run
    snapshotRid,  \* history: review whose comments were fetched and written
    startComments,\* history: comments as fetched or loaded
    posted,       \* history: positions posted successfully in this run
    failedIdx,    \* history: positions whose createComment failed in this run
    filesAtDelete,\* history: the file system when the run began, then when
                  \*   deletePendingReview was issued
    origin,       \* history: how the snapshot this run loaded was written
    unlisted,     \* server: ids of the caller's PENDING reviews on the pages
                  \*   the listing has not delivered yet
    sinceMatch,   \* history, while listing: pages delivered after the page
                  \*   of the first match (0, 1, 2 = two or more)
    ticks         \* history: rounds of the countdown loop completed in this run

vars == <<files, runs, pc, opt, userId, reviewId, saveFile, comments, timeout,
          idx, exitCode, err, pendingMine, deleteCalls, createCalls,
          writes, snapshotRid, startComments, posted, failedIdx, filesAtDelete,
          origin, unlisted, sinceMatch, ticks>>

listVars == <<unlisted, sinceMatch>>
runVars == <<opt, userId, reviewId, saveFile, comments, timeout, idx>>
histVars == <<pendingMine, deleteCalls, createCalls, writes,
              snapshotRid, startComments, posted, failedIdx, filesAtDelete>>

Init ==
    /\ files = [p \in Paths |-> NoFile]
    /\ runs = 0
    /\ pc = "idle"
    /\ opt = NoOpt
    /\ userId = Undefined
    /\ reviewId = Undefined
    /\ saveFile = <<>>
    /\ comments = <<>>
    /\ timeout = 0
    /\ idx = 1
    /\ exitCode = 0
    /\ err = "none"
    /\ pendingMine = 0
    /\ deleteCalls = 0
    /\ createCalls = 0
    /\ writes = 0
    /\ snapshotRid = Undefined
    /\ startComments = <<>>
    /\ posted = {}
    /\ failedIdx = {}
    /\ filesAtDelete = files
    /\ origin = NoOrigin
    /\ unlisted = {}
    /\ sinceMatch = 0
    /\ ticks = 0

\* run(): catch (e) { ...; process.exit(1); }
Fail(cause) ==
    /\ pc' = "failed"
    /\ err' = cause
    /\ exitCode' = 1

\* a new invocation of the tool: main() up to the first await.  Of the
\* command line main() reads repo and pr here; save and load enter the
\* state where main() first looks at them (ListDone).
StartRun ==
    /\ pc \in {"idle", "done", "failed"}
    /\ runs < MaxRuns
    /\ runs' = runs + 1
    /\ \E o \in Orgs, r \in Repos, p \in PRs :
           opt' = [org |-> o, repo |-> r, pr |-> p, save |-> NotGiven, load |-> NotGiven]
    /\ origin' = NoOrigin
    /\ pc' = "auth"
    /\ userId' = Undefined
    /\ reviewId' = Undefined
    /\ saveFile' = <<>>
    /\ comments' = <<>>
    /\ timeout' = 0
    /\ idx' = 1
    /\ exitCode' = 0
    /\ err' = "none"
    /\ pendingMine' = 0
    /\ deleteCalls' = 0
    /\ createCalls' = 0
    /\ writes' = 0
    /\ snapshotRid' = Undefined
    /\ startComments' = <<>>
    /\ posted' = {}
    /\ failedIdx' = {}
    /\ filesAtDelete' = files
    /\ unlisted' = {}
    /\ sinceMatch' = 0
    /\ ticks' = 0
    /\ UNCHANGED files

\* the PENDING reviews user u has on the pull request
PendingBy(u) == {r.id : r \in {x \in ReviewPool : x.user = u /\ x.state = "PENDING"}}

\* github.users.getAuthenticated() resolves
AuthOk ==
    /\ UNCHANGED ticks
    /\ pc = "auth"
    /\ \E u \in Callers :
         /\ userId' = u
         /\ \E S \in SUBSET PendingBy(u) : unlisted' = S
    /\ sinceMatch' = 0
    /\ pc' = "list"
    /\ UNCHANGED <<files, runs, opt, reviewId, saveFile, comments, timeout, idx,
                   exitCode, err, origin>>
    /\ UNCHANGED histVars

\* github.users.getAuthenticated() rejects
AuthFail ==
    /\ UNCHANGED ticks
    /\ UNCHANGED listVars
    /\ pc = "auth"
    /\ Fail("auth")
    /\ UNCHANGED <<files, runs, origin>>
    /\ UNCHANGED runVars
    /\ UNCHANGED histVars

\* variant: the state of the review is not looked at
IsMineAnyState(review) == review.user = userId

\* review.user.id === userId && review.state === 'PENDING'
IsMine(review) == review.user = userId /\ review.state = "PENDING"

\* variant: no check for a second match, the last match wins
RECURSIVE ScanPageLastWins(_, _, _)
ScanPageLastWins(page, i, rid) ==
    IF i > Len(page) THEN [rid |-> rid, thrown |-> FALSE]
    ELSE IF IsMine(page[i])
         THEN ScanPageLastWins(page, i + 1, page[i].id)
         ELSE ScanPageLastWins(page, i + 1, rid)

\* for (const review of response.data) { ... }
RECURSIVE ScanPage(_, _, _)
ScanPage(page, i, rid) ==
    IF i > Len(page) THEN [rid |-> rid, thrown |-> FALSE]
    ELSE IF IsMine(page[i])
         THEN IF rid # Undefined
              THEN [rid |-> rid, thrown |-> TRUE]
              ELSE ScanPage(page, i + 1, page[i].id)
         ELSE ScanPage(page, i + 1, rid)

CountMine(page) == Cardinality({i \in 1..Len(page) : IsMine(page[i])})

\* the caller's PENDING reviews on a page
OnPage(page) ==
    {page[i].id : i \in {j \in 1..Len(page) :
                            page[j].user = userId /\ page[j].state = "PENDING"}}

\* the paginating iterator delivers one more page
ListPage ==
    /\ UNCHANGED ticks
    /\ pc = "list"
    /\ \E page \in Pages :
         LET r == ScanPage(page, 1, reviewId)
         IN  /\ OnPage(page) \subseteq unlisted
             /\ unlisted' = unlisted \ OnPage(page)
             /\ sinceMatch' = IF reviewId = Undefined THEN 0
                              ELSE IF sinceMatch < 2 THEN sinceMatch + 1 ELSE 2
             /\ pendingMine' = pendingMine + CountMine(page)
             /\ reviewId' = r.rid
             /\ IF r.thrown
                THEN Fail("multiple")
                ELSE UNCHANGED <<pc, err, exitCode>>
    /\ UNCHANGED <<files, runs, opt, userId, saveFile, comments, timeout, idx, origin>>
    /\ UNCHANGED <<deleteCalls, createCalls, writes, snapshotRid, startComments,
                   posted, failedIdx, filesAtDelete>>

\* a request of the listing rejects
ListFail ==
    /\ UNCHANGED ticks
    /\ UNCHANGED listVars
    /\ pc = "list"
    /\ Fail("list")
    /\ UNCHANGED <<files, runs, origin>>
    /\ UNCHANGED runVars
    /\ UNCHANGED histVars

\* `if (reviewId)`
Found(rid) == rid # Undefined /\ rid # 0

\* variant: the load path is preferred to the derived path
ChooseSaveFileLoadFirst(o, rid) ==
    IF Truthy(o.save) THEN o.save.value
    ELSE IF Truthy(o.load) THEN o.load.value
    ELSE IF Found(rid) THEN DerivedPath(o.org, o.repo, o.pr, rid)
    ELSE SyncPath(o.org, o.repo, o.pr)

\* let saveFile = opt.options.save; if (!saveFile) { ... }
ChooseSaveFile(o, rid) ==
    IF Truthy(o.save) THEN o.save.value
    ELSE IF Found(rid) THEN DerivedPath(o.org, o.repo, o.pr, rid)
    ELSE IF Truthy(o.load) THEN o.load.value
    ELSE SyncPath(o.org, o.repo, o.pr)

\* variant: the final `else throw` is missing, the fetch is attempted instead
SourceOfNoThrow(o, rid) ==
    IF Truthy(o.load) /\ ~(Found(rid) /\ ~o.load.given) THEN "load" ELSE "fetch"

\* if (reviewId && !('load' in opt.options)) ... else if (opt.options.load) ... else throw
SourceOf(o, rid) ==
    IF Found(rid) /\ ~o.load.given THEN "fetch"
    ELSE IF Truthy(o.load) THEN "load"
    ELSE "none"

\* the iterator has no further page
Exhausted == unlisted = {}

\* variant: `break` at the first match
LeavesLoopAtMatch == Exhausted \/ reviewId # Undefined

\* `for await (const response of github.paginate.iterator(...))` ends when
\* the iterator does
LeavesLoop == Exhausted

\* the listing is exhausted: main() from the end of the loop to the next
\* await; opt.options.save and opt.options.load are read here
ListDone ==
    /\ UNCHANGED ticks
    /\ pc = "list"
    /\ LeavesLoop
    /\ sinceMatch' = 0
    /\ UNCHANGED unlisted
    /\ \E s \in SaveChoices, l \in LoadChoices :
           opt' = [opt EXCEPT !.save = s, !.load = l]
    /\ saveFile' = ChooseSaveFile(opt', reviewId)
    /\ LET src == SourceOf(opt', reviewId)
       IN  IF src = "none"
           THEN Fail("nosource")
           ELSE pc' = src /\ UNCHANGED <<err, exitCode>>
    /\ UNCHANGED <<files, runs, userId, reviewId, comments, timeout, idx, origin>>
    /\ UNCHANGED histVars

\* variant: the dismantling step is missing, the replay starts at once
AfterSourceNoDelete == pc' = "replay" /\ timeout' = timeout

\* variant: with a load path the dismantling is skipped
AfterSourceNoDeleteOnLoad ==
    IF Found(reviewId) /\ ~opt.load.given
    THEN pc' = "countdown" /\ timeout' = COUNTDOWN
    ELSE pc' = "replay" /\ timeout' = timeout

\* after the comments are in memory: `if (reviewId) { ... timeoutNotify(..., 10)`
\* or straight on to the replay loop
AfterSource ==
    IF Found(reviewId)
    THEN pc' = "countdown" /\ timeout' = COUNTDOWN
    ELSE pc' = "replay" /\ timeout' = timeout

\* github.paginate(getCommentsForReviewReq) resolves
FetchOk ==
    /\ UNCHANGED ticks
    /\ UNCHANGED listVars
    /\ pc = "fetch"
    /\ \E cs \in CommentLists :
         /\ comments' = cs
         /\ startComments' = cs
    /\ pc' = "save"
    /\ UNCHANGED <<files, runs, opt, userId, reviewId, saveFile, timeout, idx,
                   exitCode, err, origin>>
    /\ UNCHANGED <<pendingMine, deleteCalls, createCalls, writes,
                   snapshotRid, posted, failedIdx, filesAtDelete>>

\* github.paginate(getCommentsForReviewReq) rejects
FetchFail ==
    /\ UNCHANGED ticks
    /\ UNCHANGED listVars
    /\ pc = "fetch"
    /\ Fail("fetch")
    /\ UNCHANGED <<files, runs, origin>>
    /\ UNCHANGED runVars
    /\ UNCHANGED histVars

\* fs.promises.writeFile(saveFile, JSON.stringify(comments), 'utf-8') resolves
WriteFile(path, cs) == [files EXCEPT ![path] = FileOf(cs)]

\* what a rejected writeFile can leave behind: the file as it was, or a
\* truncated one
FailedWrite(path) == {files, [files EXCEPT ![path] = BrokenFile]}

\* saveComments(saveFile, comments) right after the fetch, resolves
SaveOk ==
    /\ UNCHANGED ticks
    /\ UNCHANGED listVars
    /\ pc = "save"
    /\ files' = WriteFile(saveFile, comments)
    /\ writes' = writes + 1
    /\ snapshotRid' = reviewId
    /\ AfterSource
    /\ UNCHANGED <<runs, opt, userId, reviewId, saveFile, comments, idx,
                   exitCode, err, origin>>
    /\ UNCHANGED <<pendingMine, deleteCalls, createCalls,
                   startComments, posted, failedIdx, filesAtDelete>>

\* variant: the error of the first save is reported but the run goes on
SaveFailIgnored ==
    /\ UNCHANGED ticks
    /\ UNCHANGED listVars
    /\ pc = "save"
    /\ files' \in FailedWrite(saveFile)
    /\ err' = "save"
    /\ exitCode' = 1
    /\ AfterSource
    /\ writes' = writes + 1
    /\ UNCHANGED <<runs, opt, userId, reviewId, saveFile, comments, idx, origin>>
    /\ UNCHANGED <<pendingMine, deleteCalls, createCalls, snapshotRid,
                   startComments, posted, failedIdx, filesAtDelete>>

\* saveComments(saveFile, comments) right after the fetch, throws
SaveFail ==
    /\ UNCHANGED ticks
    /\ UNCHANGED listVars
    /\ pc = "save"
    /\ files' \in FailedWrite(saveFile)
    /\ Fail("save")
    /\ UNCHANGED <<runs, origin>>
    /\ UNCHANGED runVars
    /\ writes' = writes + 1
    /\ UNCHANGED <<pendingMine, deleteCalls, createCalls, snapshotRid,
                   startComments, posted, failedIdx, filesAtDelete>>

\* fs.promises.readFile(opt.options.load) and JSON.parse(r) succeed
LoadOk ==
    /\ UNCHANGED ticks
    /\ UNCHANGED listVars
    /\ pc = "load"
    /\ files[opt.load.value].exists
    /\ files[opt.load.value].valid
    /\ comments' = Parse(files[opt.load.value].text)
    /\ startComments' = comments'
    /\ origin' = [loaded |-> TRUE, final |-> files[opt.load.value].final,
                  failed |-> files[opt.load.value].failed]
    /\ AfterSource
    /\ UNCHANGED <<files, runs, opt, userId, reviewId, saveFile, idx,
                   exitCode, err>>
    /\ UNCHANGED <<pendingMine, deleteCalls, createCalls, writes,
                   snapshotRid, posted, failedIdx, filesAtDelete>>

\* readFile rejects (no such file, I/O error) or JSON.parse throws
LoadFail ==
    /\ UNCHANGED ticks
    /\ UNCHANGED listVars
    /\ pc = "load"
    /\ Fail("load")
    /\ UNCHANGED <<files, runs, origin>>
    /\ UNCHANGED runVars
    /\ UNCHANGED histVars

\* variant: `while (timeout--)`, the value is tested before it is decremented
TickPostDecrement ==
    /\ UNCHANGED listVars
    /\ pc = "countdown"
    /\ ticks' = ticks + 1
    /\ timeout' = timeout - 1
    /\ pc' = IF timeout # 0 THEN "countdown" ELSE "delete"
    /\ UNCHANGED <<files, runs, opt, userId, reviewId, saveFile, comments, idx,
                   exitCode, err, origin>>
    /\ UNCHANGED histVars

\* timeoutNotify: one round of the do { ... } while (--timeout) loop
Tick ==
    /\ UNCHANGED listVars
    /\ pc = "countdown"
    /\ ticks' = ticks + 1
    /\ timeout' = timeout - 1
    /\ pc' = IF timeout' # 0 THEN "countdown" ELSE "delete"
    /\ UNCHANGED <<files, runs, opt, userId, reviewId, saveFile, comments, idx,
                   exitCode, err, origin>>
    /\ UNCHANGED histVars

\* github.pulls.deletePendingReview(...) resolves
DeleteOk ==
    /\ UNCHANGED ticks
    /\ UNCHANGED listVars
    /\ pc = "delete"
    /\ deleteCalls' = deleteCalls + 1
    /\ filesAtDelete' = files
    /\ pc' = "replay"
    /\ UNCHANGED <<files, runs, exitCode, err, origin>>
    /\ UNCHANGED runVars
    /\ UNCHANGED <<pendingMine, createCalls, writes, snapshotRid,
                   startComments, posted, failedIdx>>

\* variant: the rejected deletion is reported but the replay starts anyway
DeleteFailIgnored ==
    /\ UNCHANGED ticks
    /\ UNCHANGED listVars
    /\ pc = "delete"
    /\ deleteCalls' = deleteCalls + 1
    /\ filesAtDelete' = files
    /\ err' = "delete"
    /\ exitCode' = 1
    /\ pc' = "replay"
    /\ UNCHANGED <<files, runs, origin>>
    /\ UNCHANGED runVars
    /\ UNCHANGED <<pendingMine, createCalls, writes, snapshotRid,
                   startComments, posted, failedIdx>>

\* github.pulls.deletePendingReview(...) rejects
DeleteFail ==
    /\ UNCHANGED ticks
    /\ UNCHANGED listVars
    /\ pc = "delete"
    /\ deleteCalls' = deleteCalls + 1
    /\ filesAtDelete' = files
    /\ Fail("delete")
    /\ UNCHANGED <<files, runs, origin>>
    /\ UNCHANGED runVars
    /\ UNCHANGED <<pendingMine, createCalls, writes, snapshotRid,
                   startComments, posted, failedIdx>>

InLoop == pc = "replay" /\ idx <= Len(comments)

\* the loop body for a comment that has new_id: `continue`
SkipPosted ==
    /\ UNCHANGED ticks
    /\ UNCHANGED listVars
    /\ InLoop
    /\ HasNewId(comments[idx])
    /\ idx' = idx + 1
    /\ UNCHANGED <<files, runs, pc, opt, userId, reviewId, saveFile, comments,
                   timeout, exitCode, err, origin>>
    /\ UNCHANGED histVars

\* variant: the snapshot is re-saved after every successful post
PostOkSaves ==
    /\ UNCHANGED ticks
    /\ UNCHANGED listVars
    /\ InLoop
    /\ ~HasNewId(comments[idx])
    /\ \E nid \in NewIds(comments[idx]) :
         comments' = [comments EXCEPT ![idx] = SetNewId(@, nid)]
    /\ files' = WriteFile(saveFile, comments')
    /\ writes' = writes + 1
    /\ createCalls' = createCalls + 1
    /\ posted' = posted \cup {idx}
    /\ idx' = idx + 1
    /\ UNCHANGED <<runs, pc, opt, userId, reviewId, saveFile, timeout,
                   exitCode, err, origin>>
    /\ UNCHANGED <<pendingMine, deleteCalls, snapshotRid,
                   startComments, failedIdx, filesAtDelete>>

\* github.pulls.createComment(...) resolves: comment.new_id = pResp.data.id
PostOk ==
    /\ UNCHANGED ticks
    /\ UNCHANGED listVars
    /\ InLoop
    /\ ~HasNewId(comments[idx])
    /\ \E nid \in NewIds(comments[idx]) :
         comments' = [comments EXCEPT ![idx] = SetNewId(@, nid)]
    /\ createCalls' = createCalls + 1
    /\ posted' = posted \cup {idx}
    /\ idx' = idx + 1
    /\ UNCHANGED <<files, runs, pc, opt, userId, reviewId, saveFile, timeout,
                   exitCode, err, origin>>
    /\ UNCHANGED <<pendingMine, deleteCalls, writes, snapshotRid,
                   startComments, failedIdx, filesAtDelete>>

\* variant: no try/catch around createComment, the rejection ends the run
PostFailAborts ==
    /\ UNCHANGED ticks
    /\ UNCHANGED listVars
    /\ pc = "replay" /\ idx <= Len(comments)
    /\ ~HasNewId(comments[idx])
    /\ createCalls' = createCalls + 1
    /\ failedIdx' = failedIdx \cup {idx}
    /\ Fail("post")
    /\ UNCHANGED <<files, runs, origin>>
    /\ UNCHANGED runVars
    /\ UNCHANGED <<pendingMine, deleteCalls, writes, snapshotRid,
                   startComments, posted, filesAtDelete>>

\* variant: the failed call is issued again for the same comment
PostFailRetries ==
    /\ UNCHANGED ticks
    /\ UNCHANGED listVars
    /\ InLoop
    /\ ~HasNewId(comments[idx])
    /\ createCalls' = createCalls + 1
    /\ failedIdx' = failedIdx \cup {idx}
    /\ UNCHANGED <<files, runs, pc, opt, userId, reviewId, saveFile, comments,
                   timeout, idx, exitCode, err, origin>>
    /\ UNCHANGED <<pendingMine, deleteCalls, writes, snapshotRid,
                   startComments, posted, filesAtDelete>>

\* github.pulls.createComment(...) rejects: console.warn('Failed:', ...)
PostFail ==
    /\ UNCHANGED ticks
    /\ UNCHANGED listVars
    /\ InLoop
    /\ ~HasNewId(comments[idx])
    /\ createCalls' = createCalls + 1
    /\ failedIdx' = failedIdx \cup {idx}
    /\ idx' = idx + 1
    /\ UNCHANGED <<files, runs, pc, opt, userId, reviewId, saveFile, comments,
                   timeout, exitCode, err, origin>>
    /\ UNCHANGED <<pendingMine, deleteCalls, writes, snapshotRid,
                   startComments, posted, filesAtDelete>>

PassOver == pc = "replay" /\ idx > Len(comments)

\* the re-save after the loop resolves; main() returns
ResaveOk ==
    /\ UNCHANGED ticks
    /\ UNCHANGED listVars
    /\ PassOver
    /\ files' = [WriteFile(saveFile, comments) EXCEPT
                     ![saveFile].final = TRUE, ![saveFile].failed = failedIdx]
    /\ writes' = writes + 1
    /\ pc' = "done"
    /\ UNCHANGED <<runs, exitCode, err, origin>>
    /\ UNCHANGED runVars
    /\ UNCHANGED <<pendingMine, deleteCalls, createCalls, snapshotRid,
                   startComments, posted, failedIdx, filesAtDelete>>

\* the re-save after the loop throws
ResaveFail ==
    /\ UNCHANGED ticks
    /\ UNCHANGED listVars
    /\ PassOver
    /\ files' \in FailedWrite(saveFile)
    /\ Fail("resave")
    /\ UNCHANGED <<runs, origin>>
    /\ UNCHANGED runVars
    /\ writes' = writes + 1
    /\ UNCHANGED <<pendingMine, deleteCalls, createCalls, snapshotRid,
                   startComments, posted, failedIdx, filesAtDelete>>

Next ==
    \/ StartRun
    \/ AuthOk
    \/ AuthFail
    \/ ListPage
    \/ ListFail
    \/ ListDone
    \/ FetchOk
    \/ FetchFail
    \/ SaveOk
    \/ SaveFail
    \/ LoadOk
    \/ LoadFail
    \/ Tick
    \/ DeleteOk
    \/ DeleteFail
    \/ SkipPosted
    \/ PostOk
    \/ PostFail
    \/ ResaveOk
    \/ ResaveFail

Spec == Init /\ [][Next]_vars

\* ===================================================================
\* Properties
\* ===================================================================
PassEnded == pc = "done" \/ PassOver \/ (pc = "failed" /\ err = "resave")

\* the file the run writes its snapshot to, read back by the loader
ReadBack(path) == Parse(files[path].text)

\* C1: the delete-pending-review call is issued only after the comments of
\* that very review were fetched and written to the snapshot file in the
\* same run, whatever the options.
C1_DeleteOnlyAfterSnapshot ==
    deleteCalls > 0 => snapshotRid = reviewId

\* C2: when a run posted every comment and wrote its final snapshot, a run
\* that loads that snapshot issues no create-comment call.
C2_ReplayTwicePostsNothing ==
    (origin.loaded /\ origin.final /\ origin.failed = {}) => createCalls = 0

C2_Witness ==
    /\ origin.loaded /\ origin.final /\ origin.failed = {}
    /\ pc = "done"
    /\ Len(comments) >= 2
    /\ \A i \in 1..Len(comments) : HasNewId(comments[i])
    /\ createCalls = 0

\* C3 (as stated): during the replay the snapshot file records new_id for
\* every comment posted so far, except at most the one handled last.
C3_FileFollowsReplay ==
    pc = "replay" =>
        \A i \in posted :
            i < idx - 1 =>
                /\ files[saveFile].valid
                /\ i <= Len(files[saveFile].text)
                /\ HasNewId(ReadBack(saveFile)[i])

\* the file the comments of this run came from
SourceFile == IF origin.loaded THEN opt.load.value ELSE saveFile

\* C3 (amended): the snapshot is re-written only once, after the whole pass:
\* at every point during the replay the file on disk still holds the
\* comments as they were when the pass began, so a run that loaded it then
\* would find new_id on none of the comments posted in this run.
C3_FileKeepsPrePassState ==
    pc = "replay" =>
        /\ files[SourceFile].valid
        /\ ReadBack(SourceFile) = startComments
        /\ \A i \in posted :
               HasNewId(comments[i]) /\ ~HasNewId(ReadBack(SourceFile)[i])

C3_Witness ==
    /\ pc = "replay" /\ idx = 3 /\ posted = {1, 2}
    /\ \A i \in posted : ~HasNewId(ReadBack(SourceFile)[i])

\* C4: a listing with two or more PENDING reviews by the caller makes the
\* run fail, with no file written, no review deleted, no comment created.
C4_TwoPendingIsFatal ==
    pendingMine >= 2 =>
        /\ pc = "failed" /\ err = "multiple" /\ exitCode = 1
        /\ writes = 0 /\ deleteCalls = 0 /\ createCalls = 0

C4_Witness ==
    pendingMine >= 2 /\ pc = "failed" /\ err = "multiple" /\ Found(reviewId)

\* C5: a completed listing without a PENDING review by the caller, and no
\* load path, makes the run fail, with no deletion, creation or file write.
C5_NothingToReplayIsFatal ==
    (/\ pc \notin {"idle", "auth", "list"}
     /\ err \notin {"auth", "list"}
     /\ pendingMine = 0
     /\ ~Truthy(opt.load))
        => /\ pc = "failed" /\ err = "nosource" /\ exitCode = 1
           /\ writes = 0 /\ deleteCalls = 0 /\ createCalls = 0

C5_Witness ==
    /\ pc = "failed" /\ err = "nosource"
    /\ pendingMine = 0 /\ ~opt.load.given /\ reviewId = Undefined

\* C6: a failed create-comment call does not end the run: the loop goes on
\* to every later comment, failed comments stay without new_id and posted
\* ones get it, the run exits with status 0 once the snapshot is re-saved,
\* and a following run that loads that snapshot attempts exactly the
\* comments that failed before.
C6_PostFailureIsNotFatal ==
    /\ failedIdx # {} => (pc \in {"replay", "done"} \/ (pc = "failed" /\ err = "resave"))
    /\ (pc = "replay" \/ PassEnded) =>
           /\ \A i \in 1..Len(comments) :
                  (i < idx /\ ~HasNewId(startComments[i])) => i \in posted \cup failedIdx
           /\ \A i \in failedIdx : ~HasNewId(comments[i])
           /\ \A i \in posted : HasNewId(comments[i])
    /\ PassEnded => idx = Len(comments) + 1
    /\ pc = "done" => exitCode = 0 /\ err = "none"
    /\ (PassEnded /\ origin.final) => posted \cup failedIdx = origin.failed

C6_Witness ==
    /\ pc = "done" /\ origin.final
    /\ origin.failed # {}
    /\ posted \cup failedIdx = origin.failed
    /\ \E i \in 1..Len(comments) : i \notin origin.failed /\ HasNewId(startComments[i])
    /\ posted = origin.failed

PreDismantleErrors == {"auth", "list", "multiple", "fetch", "save", "load", "nosource"}

\* C7: a failure before the dismantling step (identity lookup, listing,
\* comment fetch, snapshot write, snapshot load) ends the run with status 1
\* and is followed by no delete-pending-review and no create-comment call.
C7_EarlyFailureIsFatal ==
    err \in PreDismantleErrors =>
        /\ pc = "failed" /\ exitCode = 1
        /\ deleteCalls = 0 /\ createCalls = 0

C7_Witness ==
    pc = "failed" /\ err = "save" /\ Found(reviewId) /\ Len(comments) >= 1

C9_DeleteFailureIsFatal ==
    err = "delete" =>
        /\ pc = "failed" /\ exitCode = 1
        /\ createCalls = 0
        /\ files = filesAtDelete
        /\ snapshotRid # Undefined => files[saveFile] = FileOf(startComments)

C9_Witness ==
    /\ pc = "failed" /\ err = "delete"
    /\ snapshotRid = reviewId /\ Len(startComments) >= 1

\* C10: a run that completes the replay pass re-saves the snapshot: the
\* file then holds every comment of the list in the original order, each
\* field as it was, with new_id exactly on the comments that had it before
\* the pass or were posted in it, however many posts failed.
C10_FinalRewrite ==
    pc = "done" =>
        /\ files[saveFile].exists /\ files[saveFile].valid
        /\ Len(ReadBack(saveFile)) = Len(startComments)
        /\ \A i \in 1..Len(startComments) :
               /\ HasNewId(ReadBack(saveFile)[i])
                      <=> (HasNewId(startComments[i]) \/ i \in posted)
               /\ \A k \in DOMAIN startComments[i] :
                      ReadBack(saveFile)[i][k] = startComments[i][k]
               /\ DOMAIN ReadBack(saveFile)[i] \subseteq DOMAIN startComments[i] \cup {"new_id"}

C10_Witness ==
    /\ pc = "done" /\ Len(startComments) >= 2
    /\ posted # {} /\ failedIdx # {}
    /\ \E i \in posted : HasNewId(ReadBack(saveFile)[i])

\* the listing loop was left without an error of the listing itself
Listed == pc \notin {"idle", "auth", "list"} /\ err \notin {"auth", "list"}

\* C11: the listing is read to its last page even after a match: when the
\* caller has two PENDING reviews on the pull request, wherever they lie in
\* the listing, the run ends with the 'more than one' error; reviews of
\* other users or in other states are never taken for a match.
C11_EveryPageIsScanned ==
    /\ Listed =>
           /\ pendingMine + Cardinality(unlisted) >= 2 => err = "multiple"
           /\ err # "multiple" => (unlisted = {} /\ (Found(reviewId) <=> pendingMine = 1))
    /\ err = "multiple" => pendingMine >= 2
    /\ reviewId # Undefined =>
           \E r \in ReviewPool :
               r.id = reviewId /\ r.user = userId /\ r.state = "PENDING"

\* the second match lies two or more pages after the first
C11_Witness ==
    /\ pc = "failed" /\ err = "multiple"
    /\ sinceMatch = 2 /\ pendingMine = 2

\* C12: without an explicit save path and with a pending review found, the
\* snapshot path is org_repo_pr_reviewId.json, whatever the other options
\* and whatever is on disk, and the first snapshot is written there: a later
\* run that finds the same review writes the file the earlier run left.
C12_DerivedSnapshotPath ==
    (Listed /\ err # "multiple" /\ ~Truthy(opt.save) /\ Found(reviewId)) =>
        /\ saveFile = <<opt.org, "_", opt.repo, "_">> \o DecStr(opt.pr)
                          \o <<"_">> \o DecStr(reviewId) \o <<".json">>
        /\ snapshotRid # Undefined => files[saveFile].exists

C12_Witness ==
    /\ runs = 2 /\ pc = "countdown" /\ snapshotRid = reviewId
    /\ ~opt.save.given /\ reviewId = 1
    /\ saveFile = <<"org", "_", "repo", "_", "7", "_", "1", ".json">>
    /\ filesAtDelete[saveFile].final
    /\ files[saveFile] = FileOf(startComments)

\* C13: the snapshot written right after the fetch reads back as the
\* fetched list (right after the write, and still when the deletion is
\* issued): the same comments in the same order, every field with its value
\* and no new_id; a run that loads such a snapshot starts from a list the
\* server returned.
C13_SnapshotRoundTrip ==
    /\ (/\ snapshotRid # Undefined
        /\ (pc = "countdown" /\ ticks = 0) \/ pc = "delete" \/ err = "delete") =>
           /\ files[saveFile].exists /\ files[saveFile].valid
           /\ ReadBack(saveFile) = startComments
           /\ \A i \in 1..Len(startComments) :
                  DOMAIN ReadBack(saveFile)[i] = DOMAIN BaseComment(i)
    /\ (origin.loaded /\ ~origin.final) =>
           /\ startComments \in CommentLists
           /\ \A i \in 1..Len(startComments) : ~HasNewId(startComments[i])

C13_Witness ==
    /\ origin.loaded /\ ~origin.final
    /\ pc = "replay" /\ idx = 1
    /\ startComments = [i \in 1..MaxComments |-> BaseComment(i)]
    /\ startComments = ReadBack(opt.load.value)

\* the positions of the list the loop has dealt with
Visited == 1..(idx - 1)

\* C14: the replay goes through the list in order, one comment per step:
\* of the comments visited so far, those that had new_id caused no
\* create-comment call and each of the others exactly one, which either
\* succeeded or failed before the loop moved on; a call is only ever
\* issued for the comment the loop stands at.
C14_OneCallPerComment ==
    /\ [](idx \in 1..(Len(comments) + 1))
    /\ []((pc = "replay" \/ PassEnded) =>
             /\ posted \cup failedIdx = {i \in Visited : ~HasNewId(startComments[i])}
             /\ posted \cap failedIdx = {}
             /\ createCalls = Cardinality(posted \cup failedIdx))
    /\ [][/\ idx' # idx => (idx' = idx + 1 \/ (idx' = 1 /\ runs' = runs + 1))
          /\ createCalls' > createCalls =>
                 /\ InLoop /\ ~HasNewId(comments[idx])
                 /\ createCalls' = createCalls + 1
                 /\ idx' = idx + 1
                 /\ (posted \cup failedIdx)' = posted \cup failedIdx \cup {idx}]_vars

C14_Witness ==
    /\ PassOver /\ Len(comments) = 2
    /\ HasNewId(startComments[1]) /\ ~HasNewId(startComments[2])
    /\ createCalls = 1 /\ failedIdx = {2}

\* C15: from the moment the list is fetched or loaded to the end of the
\* run it keeps its length and order, and every comment keeps every
\* property it had, a new_id included; the only change is a new_id added to
\* a comment that had none, and once added it stays as it is.
C15_OnlyNewIdIsAdded ==
    /\ []((pc \in {"save", "countdown", "delete", "replay"} \/ PassEnded
           \/ err \in {"save", "delete"}) =>
             /\ Len(comments) = Len(startComments)
             /\ \A i \in 1..Len(startComments) :
                    /\ \A k \in DOMAIN startComments[i] :
                           comments[i][k] = startComments[i][k]
                    /\ DOMAIN comments[i] \subseteq DOMAIN startComments[i] \cup {"new_id"}
                    /\ DOMAIN comments[i] # DOMAIN startComments[i] => i \in posted)
    /\ [][runs' = runs =>
             \A i \in 1..Len(comments) :
                 HasNewId(comments[i]) =>
                     /\ i <= Len(comments')
                     /\ comments'[i] = comments[i]]_vars

C15_Witness ==
    /\ pc = "done" /\ Len(comments) = 2
    /\ HasNewId(startComments[1]) /\ comments[1] = startComments[1]
    /\ 2 \in posted /\ comments[2] = SetNewId(startComments[2], 100 + startComments[2]["id"])
    /\ ReadBack(saveFile) = comments

\* C16 (as stated): in a run with a load path and no explicit save path the
\* re-save that ends the run goes to the loaded file, also when a pending
\* review by the caller was found: the loaded file then records new_id for
\* every comment posted in the run.
C16_ProgressInLoadedFile ==
    (pc = "done" /\ Truthy(opt.load) /\ ~Truthy(opt.save)) =>
        /\ saveFile = opt.load.value
        /\ files[opt.load.value].valid
        /\ \A i \in posted : HasNewId(ReadBack(opt.load.value)[i])

\* C17: the countdown started with 10 goes through exactly 10 rounds and
\* then ends; the delete-pending-review call is issued only after the last
\* round, never before or during the countdown.
C17_DeleteAfterCountdown ==
    /\ pc = "countdown" =>
           /\ deleteCalls = 0
           /\ ticks < 10 /\ timeout = 10 - ticks
    /\ (pc = "delete" \/ deleteCalls > 0) => (ticks = 10 /\ timeout = 0)
    /\ ticks \in {0, 10} \/ pc = "countdown"
    /\ (ticks = 0 /\ pc # "countdown") => deleteCalls = 0

C17_Witness ==
    /\ pc = "replay" /\ deleteCalls = 1 /\ err = "none"
    /\ ticks = 10 /\ timeout = 0

\* the delete-pending-review call of this run was issued and resolved
Deleted == deleteCalls = 1 /\ err # "delete"

\* C18: in a run that found a pending review by the caller, the replay
\* loop is entered, and a create-comment call is issued, only after the
\* delete-pending-review call for that review has succeeded.
C18_NoPostWhileReviewExists ==
    /\ []((Found(reviewId) /\ (pc = "replay" \/ createCalls > 0)) => Deleted)
    /\ [][(Found(reviewId) /\ createCalls' > createCalls) =>
              (Deleted /\ pc = "replay" /\ ticks = 10)]_vars

C18_Witness ==
    /\ Found(reviewId) /\ ~opt.load.given /\ snapshotRid = reviewId
    /\ pc = "replay" /\ idx = 2 /\ createCalls = 1 /\ posted = {1}
    /\ deleteCalls = 1

\* C19 (as stated): when the re-save that ends the run fails, the run ends
\* with an error and the file the comments came from still holds them as
\* they were before the replay, without new_id for the comments posted in
\* this run, so that a run loading it would post them again.
C19_FailedRewriteKeepsFile ==
    (pc = "failed" /\ err = "resave") =>
        /\ exitCode = 1
        /\ files[SourceFile].exists /\ files[SourceFile].valid
        /\ ReadBack(SourceFile) = startComments
        /\ \A i \in posted : ~HasNewId(ReadBack(SourceFile)[i])
====
